---- MODULE Spec2Model ----
(***************************************************************************)
(* The pass-through service worker of static/app/sw.js and the part of the *)
(* host worker runtime its three listeners talk to.                        *)
(*                                                                         *)
(* A listener is an operator from the event to the sequence of host API    *)
(* calls its body makes, in evaluation order.  The host actions dispatch   *)
(* the event to every registered listener and apply the calls: the         *)
(* lifecycle of a worker version (parsed, installing, installed,           *)
(* activating, activated, redundant), the skip-waiting flag, the claim     *)
(* promise and the promises registered with waitUntil, the outbound        *)
(* network calls and what each controlled page receives from respondWith.  *)
(***************************************************************************)
EXTENDS Integers, Sequences, FiniteSets, TLC

\* Bounds of the model.
MaxCycles == 2      \* worker versions installed one after the other
MaxFetch == 2       \* fetch events dispatched in one behaviour
MaxPages == 1       \* pages (clients)

Versions == 1..MaxCycles
PageIds == 1..MaxPages

EventTypes == {"install", "activate", "fetch"}
\* Requests differing in method and in origin.
Requests ==
    { [url |-> "/app/data", method |-> "POST"],
      [url |-> "https://cdn.example/lib.js", method |-> "GET"] }
NoRequest == [url |-> "", method |-> ""]

\* What the network does to one outbound call.
Conditions == {"online", "http500", "offline"}

Pending == [kind |-> "pending", status |-> 0, body |-> <<>>, err |-> ""]
Response(status, body) == [kind |-> "response", status |-> status, body |-> body, err |-> ""]
Failure(err) == [kind |-> "error", status |-> 0, body |-> <<>>, err |-> err]

\* One host API call made by a listener.  arg is the position, in the same
\* listener's call sequence, of the call whose returned promise is passed;
\* reaction is the handler chained on that promise before it is passed.
Call(api, req, arg, reaction) == [api |-> api, req |-> req, arg |-> arg, reaction |-> reaction]

CacheApis == {"cache.put", "cache.match", "cache.delete"}

----------------------------------------------------------------------------
\* The script: sw.js

\* Variant: an install listener that never calls skipWaiting.
InstallListenerNoSkip(event) == << >>

\* self.addEventListener("install", (event) => { self.skipWaiting(); });
InstallListener(event) ==
    << Call("skipWaiting", NoRequest, 0, "none") >>

\* Variant: an activate listener that calls clients.claim() without waitUntil.
ActivateListenerNoWait(event) ==
    << Call("clients.claim", NoRequest, 0, "none") >>

\* self.addEventListener("activate", (event) => { event.waitUntil(clients.claim()); });
ActivateListener(event) ==
    << Call("clients.claim", NoRequest, 0, "none"),
       Call("waitUntil", NoRequest, 1, "none") >>

\* Variant: a fetch listener that rewrites the request method.
FetchListenerForceGet(event) ==
    << Call("fetch", [event.request EXCEPT !.method = "GET"], 0, "none"),
       Call("respondWith", NoRequest, 1, "none") >>

\* Variant: a fetch listener that chains a catch returning a fallback response.
FetchListenerFallback(event) ==
    << Call("fetch", event.request, 0, "none"),
       Call("respondWith", NoRequest, 1, "catchFallback") >>

\* Variant: a fetch listener that also stores the response in a cache.
FetchListenerCachePut(event) ==
    << Call("fetch", event.request, 0, "none"),
       Call("respondWith", NoRequest, 1, "none"),
       Call("cache.put", event.request, 1, "none") >>

\* Variant: a fetch listener that issues the outbound call twice.
FetchListenerTwice(event) ==
    << Call("fetch", event.request, 0, "none"),
       Call("fetch", event.request, 0, "none"),
       Call("respondWith", NoRequest, 2, "none") >>

\* Variant: a fetch listener that answers GET requests only.
FetchListenerGetOnly(event) ==
    IF event.request.method = "GET"
    THEN << Call("fetch", event.request, 0, "none"),
            Call("respondWith", NoRequest, 1, "none") >>
    ELSE << >>

\* self.addEventListener("fetch", (event) => { event.respondWith(fetch(event.request)); });
\* The argument fetch(event.request) is evaluated before respondWith is called.
FetchListener(event) ==
    << Call("fetch", event.request, 0, "none"),
       Call("respondWith", NoRequest, 1, "none") >>

NoListeners == [t \in EventTypes |-> 0]

\* Variant: a script that registers the install listener twice.
EvaluateScriptInstallTwice(scope) ==
    [scope EXCEPT !["install"] = @ + 2, !["activate"] = @ + 1, !["fetch"] = @ + 1]

\* Evaluating the script in a global scope makes the three addEventListener
\* calls, one per event type.
EvaluateScript(scope) ==
    [scope EXCEPT !["install"] = @ + 1, !["activate"] = @ + 1, !["fetch"] = @ + 1]

----------------------------------------------------------------------------
\* Host helpers

RECURSIVE Invoke(_, _)
\* The calls made when an event is dispatched to n registered listeners with
\* the same body.
Invoke(n, cs) == IF n = 0 THEN << >> ELSE cs \o Invoke(n - 1, cs)

CountApi(cs, apis) == Cardinality({i \in DOMAIN cs : cs[i].api \in apis})

IsFetch(c) == c.api = "fetch"

\* Variant: every listener passes the promise of the first outbound call ever made.
PromisePassedShared(cs, base, i) == 1

\* The outbound call whose promise is the one returned by the i-th call of cs,
\* when base outbound calls were made before the listener ran.
PromisePassed(cs, base, i) ==
    base + Cardinality({j \in 1..i : cs[j].api = "fetch"})

\* The network's answer to an outbound request under a condition: a server
\* error is a response, an unreachable network rejects with a TypeError.
Fetch(req, cond) ==
    CASE cond = "online" -> Response(200, <<req.url, req.method>>)
      [] cond = "http500" -> Response(500, <<req.url>>)
      [] OTHER -> Failure("TypeError")

\* What the promise passed to respondWith settles to, given the settlement
\* of the outbound call and the reaction chained on it.
Chained(outcome, reaction) ==
    IF reaction = "catchFallback" /\ outcome.kind = "error"
    THEN Response(200, <<"offline page">>)
    ELSE outcome

\* What the page receives: the response, or a network error (a TypeError)
\* when the promise rejects.
RespondWith(settled) ==
    IF settled.kind = "error" THEN Failure("TypeError") ELSE settled

----------------------------------------------------------------------------
\* State of the host

VARIABLES
    cur,            \* newest worker version, 0 before the first registration
    active,         \* the registration's active worker, 0 if none
    state,          \* lifecycle state of each version
    listeners,      \* registered listeners of each version's global scope
    installEvents,  \* install events dispatched to each version
    skipCalls,      \* skipWaiting calls made by each version
    skipFlag,       \* skip-waiting flag of each version
    activateEvents, \* activate events dispatched to each version
    claimCalls,     \* clients.claim calls made by each version
    claimState,     \* promise of the version's claim: none, pending, ok, fail
    extended,       \* the claim promise was registered with waitUntil
    pages,          \* the clients
    events,         \* fetch events dispatched, in order
    calls,          \* outbound network calls, in order
    cacheStorage,   \* keys of the origin's cache entries
    cacheOps        \* cache API calls made by the worker

vars == <<cur, active, state, listeners, installEvents, skipCalls, skipFlag,
          activateEvents, claimCalls, claimState, extended, pages, events,
          calls, cacheStorage, cacheOps>>

lifecycleVars == <<cur, active, state, listeners, installEvents, skipCalls,
                   skipFlag, activateEvents, claimCalls, claimState, extended>>

fetchVars == <<events, calls>>

cacheVars == <<cacheStorage, cacheOps>>

\* Pages with an odd id lie in the registration's scope.
InScope(p) == p % 2 = 1

ClosedPage == [open |-> FALSE, ctrl |-> 0, since |-> 0]

\* The cache entries a listener's calls leave behind.
CachePuts(cs) == {cs[i].req.url : i \in {j \in DOMAIN cs : cs[j].api = "cache.put"}}

Init ==
    /\ cur = 0
    /\ active = 0
    /\ state = [v \in Versions |-> "none"]
    /\ listeners = [v \in Versions |-> NoListeners]
    /\ installEvents = [v \in Versions |-> 0]
    /\ skipCalls = [v \in Versions |-> 0]
    /\ skipFlag = [v \in Versions |-> FALSE]
    /\ activateEvents = [v \in Versions |-> 0]
    /\ claimCalls = [v \in Versions |-> 0]
    /\ claimState = [v \in Versions |-> "none"]
    /\ extended = [v \in Versions |-> FALSE]
    /\ pages = [p \in PageIds |-> ClosedPage]
    /\ events = << >>
    /\ calls = << >>
    /\ cacheStorage = {"/app/shell"}
    /\ cacheOps = 0

----------------------------------------------------------------------------
\* Host actions

\* A registration or an update: the script is evaluated in the fresh global
\* scope of a new worker version.
Register ==
    /\ cur < MaxCycles
    /\ IF cur = 0 THEN TRUE ELSE state[cur] = "activated"
    /\ cur' = cur + 1
    /\ state' = [state EXCEPT ![cur + 1] = "parsed"]
    /\ listeners' = [listeners EXCEPT ![cur + 1] = EvaluateScript(NoListeners)]
    /\ UNCHANGED <<active, installEvents, skipCalls, skipFlag, activateEvents,
                   claimCalls, claimState, extended, pages>>
    /\ UNCHANGED fetchVars
    /\ UNCHANGED cacheVars

\* The install event is dispatched to the listeners of the new version.
DispatchInstall ==
    /\ cur > 0
    /\ state[cur] = "parsed"
    /\ LET cs == Invoke(listeners[cur]["install"], InstallListener([type |-> "install"]))
           n == CountApi(cs, {"skipWaiting"})
       IN /\ installEvents' = [installEvents EXCEPT ![cur] = @ + 1]
          /\ skipCalls' = [skipCalls EXCEPT ![cur] = @ + n]
          /\ skipFlag' = [skipFlag EXCEPT ![cur] = @ \/ n > 0]
          /\ cacheStorage' = cacheStorage \cup CachePuts(cs)
          /\ cacheOps' = cacheOps + CountApi(cs, CacheApis)
    /\ state' = [state EXCEPT ![cur] = "installing"]
    /\ UNCHANGED <<cur, active, listeners, activateEvents, claimCalls,
                   claimState, extended, pages>>
    /\ UNCHANGED fetchVars

\* The install listener registered nothing to wait for: installation ends.
InstallDone ==
    /\ cur > 0
    /\ state[cur] = "installing"
    /\ state' = [state EXCEPT ![cur] = "installed"]
    /\ UNCHANGED <<cur, active, listeners, installEvents, skipCalls, skipFlag,
                   activateEvents, claimCalls, claimState, extended, pages>>
    /\ UNCHANGED fetchVars
    /\ UNCHANGED cacheVars

\* Try Activate: a waiting worker v may be activated when there is no active
\* worker, when its skip-waiting flag is set, or when no page uses the active
\* worker.
CanActivate(v) ==
    IF active = 0 THEN TRUE
    ELSE IF skipFlag[v] THEN TRUE
    ELSE \A p \in PageIds : ~(pages[p].open /\ pages[p].ctrl = active)

\* The waiting worker is activated when there is no active worker, when no
\* page uses the active worker, or when its skip-waiting flag is set.  Pages
\* that used the old active worker now use the new one.
TryActivate ==
    /\ cur > 0
    /\ state[cur] = "installed"
    /\ CanActivate(cur)
    /\ state' = [v \in Versions |->
                    IF v = cur THEN "activating"
                    ELSE IF v = active THEN "redundant" ELSE state[v]]
    /\ active' = cur
    /\ pages' = [p \in PageIds |->
                    IF pages[p].open /\ pages[p].ctrl # 0
                    THEN [pages[p] EXCEPT !.ctrl = cur] ELSE pages[p]]
    /\ UNCHANGED <<cur, listeners, installEvents, skipCalls, skipFlag,
                   activateEvents, claimCalls, claimState, extended>>
    /\ UNCHANGED fetchVars
    /\ UNCHANGED cacheVars

\* The activate event is dispatched to the listeners of the new active worker.
DispatchActivate ==
    /\ cur > 0
    /\ state[cur] = "activating"
    /\ activateEvents[cur] = 0
    /\ LET cs == Invoke(listeners[cur]["activate"], ActivateListener([type |-> "activate"]))
           n == CountApi(cs, {"clients.claim"})
       IN /\ activateEvents' = [activateEvents EXCEPT ![cur] = @ + 1]
          /\ claimCalls' = [claimCalls EXCEPT ![cur] = @ + n]
          /\ claimState' = [claimState EXCEPT ![cur] = IF n > 0 THEN "pending" ELSE @]
          /\ extended' = [extended EXCEPT ![cur] =
                 \E i \in DOMAIN cs :
                    /\ cs[i].api = "waitUntil"
                    /\ cs[i].arg \in DOMAIN cs
                    /\ cs[cs[i].arg].api = "clients.claim"]
          /\ cacheStorage' = cacheStorage \cup CachePuts(cs)
          /\ cacheOps' = cacheOps + CountApi(cs, CacheApis)
    /\ UNCHANGED <<cur, active, state, listeners, installEvents, skipCalls,
                   skipFlag, pages>>
    /\ UNCHANGED fetchVars

\* The claim settles.  On success every open in-scope page is controlled by
\* the claiming worker; a worker that is not the active one is refused.
ClaimSettle(v, r) ==
    /\ claimState[v] = "pending"
    /\ r = "ok" => active = v
    /\ claimState' = [claimState EXCEPT ![v] = r]
    /\ pages' = [p \in PageIds |->
                    IF r = "ok" /\ pages[p].open /\ InScope(p)
                    THEN [pages[p] EXCEPT !.ctrl = v] ELSE pages[p]]
    /\ UNCHANGED <<cur, active, state, listeners, installEvents, skipCalls,
                   skipFlag, activateEvents, claimCalls, extended>>
    /\ UNCHANGED fetchVars
    /\ UNCHANGED cacheVars

\* Activation is reported complete once every promise the activate listener
\* registered with waitUntil has settled.
ActivateDone ==
    /\ cur > 0
    /\ state[cur] = "activating"
    /\ activateEvents[cur] > 0
    /\ extended[cur] => claimState[cur] \in {"ok", "fail"}
    /\ state' = [state EXCEPT ![cur] = "activated"]
    /\ UNCHANGED <<cur, active, listeners, installEvents, skipCalls, skipFlag,
                   activateEvents, claimCalls, claimState, extended, pages>>
    /\ UNCHANGED fetchVars
    /\ UNCHANGED cacheVars

\* A page is opened; a navigation inside the scope is controlled by the
\* active worker, if there is one.
OpenPage(p) ==
    /\ ~pages[p].open
    /\ LET c == IF InScope(p) THEN active ELSE 0
       IN pages' = [pages EXCEPT ![p] = [open |-> TRUE, ctrl |-> c, since |-> c]]
    /\ UNCHANGED lifecycleVars
    /\ UNCHANGED fetchVars
    /\ UNCHANGED cacheVars

ClosePage(p) ==
    /\ pages[p].open
    /\ pages' = [pages EXCEPT ![p] = ClosedPage]
    /\ UNCHANGED lifecycleVars
    /\ UNCHANGED fetchVars
    /\ UNCHANGED cacheVars

\* A controlled page issues request req: the fetch event is dispatched to the
\* listeners of the active worker, and their calls are applied.
DispatchFetch(p, req) ==
    /\ Len(events) < MaxFetch
    /\ active # 0
    /\ state[active] = "activated"
    /\ pages[p].open
    /\ pages[p].ctrl = active
    /\ LET cs == Invoke(listeners[active]["fetch"], FetchListener([type |-> "fetch", request |-> req]))
           e == Len(events) + 1
           made == SelectSeq(cs, IsFetch)
           rw == {i \in DOMAIN cs : cs[i].api = "respondWith"}
           first == CHOOSE i \in rw : \A j \in rw : i <= j
       IN /\ calls' = calls \o [k \in DOMAIN made |->
                         [req |-> made[k].req, event |-> e,
                          outcome |-> Pending, cond |-> "none"]]
          /\ events' = Append(events,
                 IF rw = {}
                 THEN [req |-> req, responded |-> FALSE, promise |-> 0,
                       reaction |-> "none", answer |-> Pending]
                 ELSE [req |-> req, responded |-> TRUE,
                       promise |-> PromisePassed(cs, Len(calls), cs[first].arg),
                       reaction |-> cs[first].reaction, answer |-> Pending])
          /\ cacheStorage' = cacheStorage \cup CachePuts(cs)
          /\ cacheOps' = cacheOps + CountApi(cs, CacheApis)
    /\ UNCHANGED lifecycleVars
    /\ UNCHANGED pages

\* Outbound call c settles under network condition cond; every fetch event
\* that passed its promise to respondWith is answered.
NetSettle(c, cond) ==
    /\ c \in DOMAIN calls
    /\ calls[c].outcome = Pending
    /\ LET out == Fetch(calls[c].req, cond)
       IN /\ calls' = [calls EXCEPT ![c] = [@ EXCEPT !.outcome = out, !.cond = cond]]
          /\ events' = [e \in DOMAIN events |->
                 IF events[e].promise = c /\ events[e].answer = Pending
                 THEN [events[e] EXCEPT
                          !.answer = RespondWith(Chained(out, events[e].reaction))]
                 ELSE events[e]]
    /\ UNCHANGED lifecycleVars
    /\ UNCHANGED pages
    /\ UNCHANGED cacheVars

Lifecycle ==
    \/ DispatchInstall
    \/ InstallDone
    \/ TryActivate
    \/ DispatchActivate
    \/ \E v \in Versions, r \in {"ok", "fail"} : ClaimSettle(v, r)
    \/ ActivateDone

Next ==
    \/ Register
    \/ Lifecycle
    \/ \E p \in PageIds : OpenPage(p)
    \/ \E p \in PageIds : ClosePage(p)
    \/ \E p \in PageIds, req \in Requests : DispatchFetch(p, req)
    \/ \E c \in 1..(2 * MaxFetch), cond \in Conditions : NetSettle(c, cond)

Spec == Init /\ [][Next]_vars

\* The host runs every lifecycle step that is due.
FairSpec == Spec /\ WF_vars(Lifecycle)

----------------------------------------------------------------------------
\* Properties

Answered(e) == events[e].answer # Pending

OwnCalls(e) == {c \in DOMAIN calls : calls[c].event = e}

\* C1: every install event makes the install listener call skipWaiting exactly
\* once, inside the dispatch of that event: the step that delivers the event
\* is the step that adds the one call and sets the flag, and no other step
\* adds a skipWaiting call.
C1_SkipWaitingOncePerInstall ==
    [][\A v \in Versions :
          /\ installEvents'[v] = installEvents[v] + 1
                => skipCalls'[v] = skipCalls[v] + 1 /\ skipFlag'[v]
          /\ skipCalls'[v] # skipCalls[v]
                => installEvents'[v] = installEvents[v] + 1]_vars

C1_Witness ==
    \E v \in Versions :
        state[v] = "installing" /\ installEvents[v] = 1 /\ skipCalls[v] = 1

\* C2: every activate event makes the activate listener call clients.claim
\* exactly once and register the claim's promise with waitUntil, and a worker
\* is reported activated only when its claim has settled, by success or by
\* failure; while the claim is pending the worker is still activating.
C2_ClaimAwaitedByActivation ==
    \A v \in Versions :
        /\ claimCalls[v] = activateEvents[v]
        /\ activateEvents[v] > 0 => extended[v]
        /\ claimState[v] = "pending" => state[v] = "activating"
        /\ state[v] \in {"activated", "redundant"} => claimState[v] \in {"ok", "fail"}

C2_Witness ==
    \E v, w \in Versions :
        /\ state[v] = "activated" /\ claimState[v] = "fail"
        /\ state[w] = "redundant" /\ claimState[w] = "ok"

\* C3: the answer a page receives for a fetch event with request R is what a
\* direct network request for R produces under the network condition the
\* outbound call met.
C3_AnswerIsDirectResult ==
    \A e \in DOMAIN events :
        Answered(e) =>
            /\ events[e].promise \in DOMAIN calls
            /\ events[e].answer = Fetch(events[e].req, calls[events[e].promise].cond)

C3_Witness ==
    \E e, f \in DOMAIN events :
        /\ events[e].req.method = "POST" /\ events[e].answer.status = 200
        /\ events[f].answer.status = 500

\* C4: when the outbound call of a fetch event fails, the page observes that
\* failure, of the same error kind; no reaction is chained on the promise and
\* no response is substituted.
C4_FailurePropagates ==
    \A e \in DOMAIN events :
        /\ events[e].reaction = "none"
        /\ \A c \in OwnCalls(e) :
              calls[c].outcome.kind = "error" =>
                  /\ events[e].answer.kind = "error"
                  /\ events[e].answer.err = calls[c].outcome.err

C4_Witness ==
    \E e \in DOMAIN events :
        /\ events[e].answer.kind = "error"
        /\ calls[events[e].promise].cond = "offline"

\* C5: no step changes the set of cache entries or makes a cache API call.
C5_CacheUntouched ==
    [][cacheStorage' = cacheStorage /\ cacheOps' = cacheOps]_vars

C5_Witness ==
    /\ state[MaxCycles] = "activated"
    /\ Len(events) = MaxFetch
    /\ \E e, f \in DOMAIN events :
          events[e].answer.kind = "response" /\ events[f].answer.kind = "error"
    /\ cacheStorage = {"/app/shell"}
    /\ cacheOps = 0

\* C6: every version has exactly one listener per event type, and every cycle
\* makes the same calls as the first: one skipWaiting call once its install
\* event was delivered, one claim call once its activate event was delivered,
\* none before.
C6_CyclesAlike ==
    \A v \in Versions :
        state[v] # "none" =>
            /\ \A t \in EventTypes : listeners[v][t] = 1
            /\ installEvents[v] <= 1
            /\ activateEvents[v] <= 1
            /\ skipCalls[v] = installEvents[v]
            /\ claimCalls[v] = activateEvents[v]
            /\ \A w \in Versions :
                  /\ installEvents[w] = installEvents[v] =>
                        skipCalls[w] = skipCalls[v] /\ skipFlag[w] = skipFlag[v]
                  /\ activateEvents[w] = activateEvents[v] =>
                        claimCalls[w] = claimCalls[v] /\ extended[w] = extended[v]

C6_Witness ==
    /\ state[1] = "redundant"
    /\ state[2] = "activating"
    /\ Len(events) >= 1
    /\ skipCalls[1] = 1 /\ skipCalls[2] = 1
    /\ claimCalls[1] = 1 /\ claimCalls[2] = 1

\* C7: every fetch event has exactly one outbound call, carrying the event's
\* request, so there are as many outbound calls as fetch events, failed calls
\* included.
C7_OneCallPerEvent ==
    /\ Len(calls) = Len(events)
    /\ \A e \in DOMAIN events :
          /\ Cardinality(OwnCalls(e)) = 1
          /\ \A c \in OwnCalls(e) : calls[c].req = events[e].req

C7_Witness ==
    /\ Len(events) = MaxFetch
    /\ Len(calls) = MaxFetch
    /\ \A c \in DOMAIN calls : calls[c].outcome.kind = "error"

\* C8: every fetch event, whatever its request, had respondWith called during
\* its dispatch with the promise of an outbound call.
C8_AlwaysResponds ==
    \A e \in DOMAIN events :
        /\ events[e].responded
        /\ events[e].promise \in DOMAIN calls

C8_Witness ==
    \E e, f \in DOMAIN events :
        /\ events[e].req.method = "POST"
        /\ events[f].req.url = "https://cdn.example/lib.js"
        /\ events[e].responded /\ events[f].responded

\* C9: under the host's lifecycle an installed worker eventually is activated,
\* whether or not pages of the previous worker stay open, and at the step
\* that reports activation complete after a successful claim every open page
\* in scope is controlled by that worker.
C9_BecomesActiveAndControls ==
    /\ \A v \in Versions : (state[v] = "installed") ~> (state[v] = "activated")
    /\ [][\A v \in Versions :
             state[v] = "activating" /\ state'[v] = "activated" /\ claimState[v] = "ok"
                => \A p \in PageIds :
                      pages'[p].open /\ InScope(p) => pages'[p].ctrl = v]_vars

C9_Witness ==
    /\ state[2] = "activated"
    /\ claimState[2] = "ok"
    /\ \E p \in PageIds : pages[p].open /\ pages[p].since < 2 /\ pages[p].ctrl = 2

\* C10: with several fetch events in flight, every event passed the promise of
\* its own outbound call to respondWith, no two events share a call, and an
\* answered event holds the settlement of its own call, whatever the order in
\* which the calls settle.
C10_NoMixing ==
    /\ \A e \in DOMAIN events :
          /\ events[e].promise \in OwnCalls(e)
          /\ Answered(e) =>
                events[e].answer = RespondWith(calls[events[e].promise].outcome)
          /\ ~Answered(e) => calls[events[e].promise].outcome = Pending
    /\ \A e, f \in DOMAIN events :
          e # f => events[e].promise # events[f].promise

C10_Witness ==
    \E e, f \in DOMAIN events :
        /\ e < f
        /\ ~Answered(e)
        /\ Answered(f)
        /\ events[e].req = events[f].req

====
